---- MODULE Spec2Model ----
(***************************************************************************)
(* pip-ensure-version: require_package / require_gitpackage.               *)
(*                                                                         *)
(* A call is synchronous and single-threaded.  Its inputs are the          *)
(* arguments, the installed distributions the metadata provider reports,   *)
(* and the exit code the `pip install` child process would end with.  Its  *)
(* outcome is the status returned or the exception raised, together with   *)
(* the requirement strings handed to the installer.                        *)
(*                                                                         *)
(* Python strings are sequences of one-character strings, so that regex    *)
(* matching, rstrip, startswith and concatenation are computed.            *)
(***************************************************************************)
EXTENDS Integers, Sequences, FiniteSets, TLC

VARIABLES
    call,     \* the arguments of the call (fn names the entry point)
    env,      \* the installed distributions, in iteration order
    exit,     \* exit code of the pip child process, should it be started
    out,      \* outcome of pip_ensure_version/pip_ensure_version.py
    outPkg    \* outcome of pip_ensure_version/__init__.py (require_package)

vars == <<call, env, exit, out, outPkg>>

\* ------------------------------------------------------------------ bounds

\* Pin strings: every string over Alphabet of length <= MaxPinLen, plus
\* the longer pins of ExamplePins.
MaxPinLen == 3

Alphabet == {"<", ">", "=", "0", "1", ".", "x"}

RECURSIVE StringsUpTo(_)
StringsUpTo(n) ==
    IF n = 0 THEN {<<>>}
    ELSE LET shorter == StringsUpTo(n - 1)
         IN  shorter \cup {Append(s, c) : s \in {t \in shorter : Len(t) = n - 1},
                                          c \in Alphabet}

\* ------------------------------------------------------------- str helpers

OpChars  == {"<", ">", "="}
Digits   == {"0", "1", "2", "3", "4", "5", "6", "7", "8", "9"}
VerChars == Digits \cup {"."}

DigitVal(c) ==
    CASE c = "0" -> 0 [] c = "1" -> 1 [] c = "2" -> 2 [] c = "3" -> 3
      [] c = "4" -> 4 [] c = "5" -> 5 [] c = "6" -> 6 [] c = "7" -> 7
      [] c = "8" -> 8 [] c = "9" -> 9

\* Length of the longest prefix of s whose characters are all in C: what a
\* greedy character class C* consumes at the start of s.
RECURSIVE RunLen(_, _)
RunLen(s, C) ==
    IF s = <<>> \/ Head(s) \notin C THEN 0 ELSE 1 + RunLen(Tail(s), C)

Drop(s, n) == SubSeq(s, n + 1, Len(s))
Take(s, n) == SubSeq(s, 1, n)

\* str.startswith
startswith(s, p) == Len(s) >= Len(p) /\ Take(s, Len(p)) = p

\* str.rstrip("/") : removes every trailing "/"
RECURSIVE rstrip_slash(_)
rstrip_slash(s) ==
    IF s # <<>> /\ s[Len(s)] = "/" THEN rstrip_slash(Take(s, Len(s) - 1)) ELSE s

\* string literals
S_eqeq    == <<"=", "=">>
S_http    == <<"h", "t", "t", "p", ":", "/", "/">>
S_https   == <<"h", "t", "t", "p", "s", ":", "/", "/">>
S_gitplus == <<"g", "i", "t", "+">>
S_slash   == <<"/">>
S_foo     == <<"f", "o", "o">>
S_bar     == <<"b", "a", "r">>

\* ---------------------------------------------------------------- values

\* Python's None where the other values are atomic (commit ids).
None == "<None>"

\* An optional pin_version: a string, or None.
NoPin      == [some |-> FALSE, val |-> <<>>]
SomePin(s) == [some |-> TRUE, val |-> s]

\* PipPackageStatus
PipPackageStatus ==
    {"UpToDate", "OutDated", "NotVcsPackage", "NotGitPackage", "Found",
     "NotFound", "Failed"}

\* The outcome of a call: a returned status or a raised exception, and the
\* requirement strings passed to `pip install`, in order.
Return(status, calls) == [status |-> status, exc |-> "none", calls |-> calls]
Raise(exc, calls)     == [status |-> "none", exc |-> exc, calls |-> calls]
NotRun                == [status |-> "none", exc |-> "none", calls |-> <<>>]
Ran(o)                == o.status # "none" \/ o.exc # "none"

\* pip's InvalidVersion derives from ValueError.
IsValueError(exc) == exc \in {"ValueError", "InvalidVersion"}

\* direct_url of a distribution: absent, a non-VCS record (archive/dir), or
\* VcsInfo with its vcs kind and commit id.
NoDirectUrl      == [kind |-> "none", vcs |-> "", commit_id |-> None]
ArchiveUrl       == [kind |-> "archive", vcs |-> "", commit_id |-> None]
VcsUrl(vcs, cid) == [kind |-> "vcs", vcs |-> vcs, commit_id |-> cid]

Dist(name, version, url, editable) ==
    [canonical_name |-> name, version |-> version, direct_url |-> url,
     editable |-> editable]

\* A lookup result: Optional[BaseDistribution].
NoDist       == Dist(<<>>, <<>>, NoDirectUrl, FALSE)
NoPackage    == [found |-> FALSE, pkg |-> NoDist]
Package(d)   == [found |-> TRUE, pkg |-> d]

\* ------------------------------------------- packaging.version.Version

\* The dot-separated components of a string of digits and dots.
RECURSIVE SplitDot(_)
SplitDot(s) ==
    LET n == RunLen(s, Digits)
    IN  IF n = Len(s) THEN <<s>> ELSE <<Take(s, n)>> \o SplitDot(Drop(s, n + 1))

RECURSIVE ToInt(_)
ToInt(s) ==
    IF s = <<>> THEN 0 ELSE 10 * ToInt(Take(s, Len(s) - 1)) + DigitVal(s[Len(s)])

\* Version(s) raises InvalidVersion unless s is digits(.digits)*; no string
\* over Alphabet spells an epoch, pre/post/dev or local segment.
VersionValid(s) ==
    /\ s # <<>>
    /\ \A i \in 1..Len(s) : s[i] \in VerChars
    /\ \A i \in 1..Len(SplitDot(s)) : SplitDot(s)[i] # <<>>

Version(s) ==
    LET parts == SplitDot(s) IN [i \in 1..Len(parts) |-> ToInt(parts[i])]

\* Version._key: the release with trailing zeros removed.
RECURSIVE StripZeros(_)
StripZeros(r) ==
    IF r # <<>> /\ r[Len(r)] = 0 THEN StripZeros(Take(r, Len(r) - 1)) ELSE r

\* Python tuple ordering.
RECURSIVE TupleLess(_, _)
TupleLess(a, b) ==
    IF b = <<>> THEN FALSE
    ELSE IF a = <<>> THEN TRUE
    ELSE IF Head(a) # Head(b) THEN Head(a) < Head(b)
    ELSE TupleLess(Tail(a), Tail(b))

VersionEq(a, b) == StripZeros(a) = StripZeros(b)
VersionLt(a, b) == TupleLess(StripZeros(a), StripZeros(b))
VersionLe(a, b) == VersionLt(a, b) \/ VersionEq(a, b)
VersionGt(a, b) == VersionLt(b, a)
VersionGe(a, b) == VersionLe(b, a)

\* ------------------------------------------------------------- the program

\* _get_package without include_editables=False: editable installs are seen.
RECURSIVE _get_package_with_editables(_, _)
_get_package_with_editables(dists, package_name) ==
    IF dists = <<>> THEN NoPackage
    ELSE IF Head(dists).canonical_name = package_name
         THEN Package(Head(dists))
         ELSE _get_package_with_editables(Tail(dists), package_name)

\* _get_package: the first installed, non-editable distribution whose
\* canonical name equals package_name, or None.
RECURSIVE _get_package(_, _)
_get_package(dists, package_name) ==
    IF dists = <<>> THEN NoPackage
    ELSE IF ~Head(dists).editable /\ Head(dists).canonical_name = package_name
         THEN Package(Head(dists))
         ELSE _get_package(Tail(dists), package_name)

\* get_git_package_hash: (status, commit id or None)
get_git_package_hash(package) ==
    IF package.direct_url.kind # "vcs" THEN <<"NotVcsPackage", None>>
    ELSE IF package.direct_url.vcs # "git" THEN <<"NotGitPackage", None>>
    ELSE <<"Found", package.direct_url.commit_id>>

KnownOperators == {<<"=", "=">>, <<">", "=">>, <<"<", "=">>, <<">">>, <<"<">>}

\* _version_not_satisfy with ">=" and "<=" compared strictly.
_version_not_satisfy_strict(current_version, target_version, operator) ==
    \/ operator = <<"=", "=">> /\ ~VersionEq(current_version, target_version)
    \/ operator = <<">", "=">> /\ ~VersionGt(current_version, target_version)
    \/ operator = <<"<", "=">> /\ ~VersionLt(current_version, target_version)
    \/ operator = <<">">>      /\ ~VersionGt(current_version, target_version)
    \/ operator = <<"<">>      /\ ~VersionLt(current_version, target_version)

\* _version_not_satisfy, for an operator of KnownOperators (any other raises
\* ValueError, see version_operator_raises).
_version_not_satisfy(current_version, target_version, operator) ==
    \/ operator = <<"=", "=">> /\ ~VersionEq(current_version, target_version)
    \/ operator = <<">", "=">> /\ ~VersionGe(current_version, target_version)
    \/ operator = <<"<", "=">> /\ ~VersionLe(current_version, target_version)
    \/ operator = <<">">>      /\ ~VersionGt(current_version, target_version)
    \/ operator = <<"<">>      /\ ~VersionLt(current_version, target_version)

version_operator_raises(operator) == operator \notin KnownOperators

\* The pattern with ([<>=]?) for the operator: at most one operator character.
re_search_groups_one_char(pin_version) ==
    LET n    == IF RunLen(pin_version, OpChars) > 0 THEN 1 ELSE 0
        rest == Drop(pin_version, n)
    IN  <<Take(pin_version, n), Take(rest, RunLen(rest, VerChars))>>

\* re.search(r"([<>=]*)([0-9.]*)", pin_version).groups(): both groups may be
\* empty, so the search always matches at position 0.
re_search_groups(pin_version) ==
    LET n    == RunLen(pin_version, OpChars)
        rest == Drop(pin_version, n)
    IN  <<Take(pin_version, n), Take(rest, RunLen(rest, VerChars))>>

\* __install reporting UpToDate whatever the exit code, unless it raises.
__install_swallows_failure(remote_string, package_name, warn_instead_of_error, exit_code) ==
    IF exit_code # 0 /\ ~warn_instead_of_error
    THEN Raise("PipAutoInstallError", <<remote_string>>)
    ELSE Return("UpToDate", <<remote_string>>)

\* __install raising on failure whatever warn_instead_of_error is.
__install_always_raises(remote_string, package_name, warn_instead_of_error, exit_code) ==
    IF exit_code # 0
    THEN Raise("PipAutoInstallError", <<remote_string>>)
    ELSE Return("UpToDate", <<remote_string>>)

\* __install: one `pip install remote_string` child process.
__install(remote_string, package_name, warn_instead_of_error, exit_code) ==
    IF exit_code # 0
    THEN IF ~warn_instead_of_error
         THEN Raise("PipAutoInstallError", <<remote_string>>)
         ELSE Return("Failed", <<remote_string>>)
    ELSE Return("UpToDate", <<remote_string>>)

\* require_package of pip_ensure_version/pip_ensure_version.py
require_package(dists, package_name, pin_version, only_update_existing, warn_instead_of_error, exit_code) ==
    LET package       == _get_package(dists, package_name)
        result_groups == re_search_groups(pin_version.val)
        operator      == IF pin_version.some /\ result_groups[1] # <<>>
                         THEN result_groups[1] ELSE S_eqeq
        install_str   == IF pin_version.some
                         THEN package_name \o operator \o result_groups[2]
                         ELSE package_name
    IN  IF pin_version.some /\ result_groups[2] = <<>>
        THEN Raise("ValueError", <<>>)
        ELSE IF package.found /\ ~pin_version.some
        THEN Return("UpToDate", <<>>)
        ELSE IF package.found /\ ~VersionValid(result_groups[2])
        THEN Raise("InvalidVersion", <<>>)
        ELSE IF package.found /\ version_operator_raises(operator)
        THEN Raise("ValueError", <<>>)
        ELSE IF package.found
                /\ ~_version_not_satisfy(package.pkg.version,
                                         Version(result_groups[2]), operator)
        THEN Return("UpToDate", <<>>)
        ELSE IF ~package.found /\ only_update_existing
        THEN Return("NotFound", <<>>)
        ELSE __install(install_str, package_name, warn_instead_of_error, exit_code)

\* The hostname rewrite testing for "https://" only.
normalize_hostname_https_only(repo_hostname) ==
    LET stripped == rstrip_slash(repo_hostname)
    IN  IF ~startswith(stripped, S_https) THEN S_https \o stripped ELSE stripped

\* repo_hostname as the install step rewrites it.
normalize_hostname(repo_hostname) ==
    LET stripped == rstrip_slash(repo_hostname)
    IN  IF ~startswith(stripped, S_http) /\ ~startswith(stripped, S_https)
        THEN S_https \o stripped
        ELSE stripped

\* require_gitpackage
require_gitpackage(dists, package_name, repo_name, pin_commit_id, only_update_existing, warn_instead_of_error, repo_hostname, exit_code) ==
    LET package == _get_package(dists, package_name)
        hash    == get_git_package_hash(package.pkg)
        status  == hash[1]
        result  == hash[2]
    IN  IF ~package.found /\ only_update_existing
        THEN Return("NotFound", <<>>)
        ELSE IF package.found /\ pin_commit_id = None
        THEN Return("Found", <<>>)
        ELSE IF package.found /\ result = pin_commit_id
        THEN Return("UpToDate", <<>>)
        ELSE IF package.found /\ status \in {"NotVcsPackage", "NotGitPackage"}
        THEN IF ~warn_instead_of_error
             THEN Raise("PipAutoInstallError", <<>>)
             ELSE Return("NotVcsPackage", <<>>)
        ELSE __install(S_gitplus \o normalize_hostname(repo_hostname)
                           \o S_slash \o repo_name,
                       package_name, warn_instead_of_error, exit_code)

\* require_package of pip_ensure_version/__init__.py
pkg_require_package(dists, package_name, pin_version, only_update_existing, warn_instead_of_error, exit_code) ==
    LET package == _get_package(dists, package_name)
    IN  IF package.found /\ ~pin_version.some
        THEN Return("UpToDate", <<>>)
        ELSE IF package.found /\ ~VersionValid(pin_version.val)
        THEN Raise("InvalidVersion", <<>>)
        ELSE IF package.found
                /\ VersionEq(Version(pin_version.val), package.pkg.version)
        THEN Return("UpToDate", <<>>)
        ELSE IF package.found
        THEN __install(package_name \o S_eqeq \o pin_version.val, package_name,
                       warn_instead_of_error, exit_code)
        ELSE IF only_update_existing
        THEN Return("NotFound", <<>>)
        ELSE __install(package_name, package_name, warn_instead_of_error,
                       exit_code)

\* ------------------------------------------------------------------ inputs

\* Longer pins, among them those of the documentation.
ExamplePins ==
    { <<">", "=", "2", ".", "0">>,      \* ">=2.0"
      <<"=", "=", "1", ".", "0">>,      \* "==1.0"
      <<"<", "=", "1", ".", "0">>,      \* "<=1.0"
      <<"1", ".", "0", ".", "0">>,      \* "1.0.0"
      <<"=", ">", "1", ".", "0">>,      \* "=>1.0"
      <<"=", "=", "=", "1", ".", "0">>, \* "===1.0"
      <<">", "1", ".", "0", "x">> }     \* ">1.0x"

PinVersions == {NoPin} \cup {SomePin(s) : s \in StringsUpTo(MaxPinLen) \cup ExamplePins}

\* Versions of the installed package (release tuples).
InstalledVersions == {<<0>>, <<1>>, <<1, 0>>, <<1, 1>>, <<2>>}

Foo(v, url) == Dist(S_foo, v, url, FALSE)
Bar         == Dist(S_bar, <<1>>, NoDirectUrl, FALSE)

\* Environments of the plain flow: foo absent, present only as an editable
\* install, or installed at some version, alone or after another package.
PlainEnvs ==
    { <<>>, <<Bar>>, <<Dist(S_foo, <<1>>, NoDirectUrl, TRUE)>> }
      \cup { <<Foo(v, NoDirectUrl)>> : v \in InstalledVersions }
      \cup { <<Bar, Foo(<<1>>, NoDirectUrl)>> }

CommitIds  == {"abc123", "def456"}
DirectUrls ==
    {NoDirectUrl, ArchiveUrl} \cup {VcsUrl(k, c) : k \in {"git", "hg"}, c \in CommitIds}

\* Environments of the git flow.
GitEnvs == { <<>>, <<Bar>> } \cup { <<Foo(<<1>>, u)>> : u \in DirectUrls }

S_github  == <<"g", "i", "t", "h", "u", "b", ".", "c", "o", "m">>
S_gitlab  == <<"g", "i", "t", "l", "a", "b", ".", "e", "x", "a", "m", "p", "l", "e",
               ".", "c", "o", "m">>
S_internal == <<"i", "n", "t", "e", "r", "n", "a", "l", ".", "g", "i", "t">>
S_orgfoo  == <<"o", "r", "g", "/", "f", "o", "o">>

\* repo_hostname values: bare, with trailing slashes, with either scheme.
Hostnames ==
    { S_github,
      S_gitlab \o S_slash,
      S_http \o S_internal,
      S_https \o S_github,
      S_https \o S_github \o S_slash \o S_slash,
      S_http \o S_internal \o S_slash,
      S_internal \o S_slash \o S_slash }

ExitCodes == {0, 1}

PlainCall(pin, oue, warn) ==
    [fn |-> "require_package", package_name |-> S_foo, pin_version |-> pin,
     repo_name |-> <<>>, pin_commit_id |-> None, repo_hostname |-> S_github,
     only_update_existing |-> oue, warn_instead_of_error |-> warn]

GitCall(cid, oue, warn, host) ==
    [fn |-> "require_gitpackage", package_name |-> S_foo, pin_version |-> NoPin,
     repo_name |-> S_orgfoo, pin_commit_id |-> cid, repo_hostname |-> host,
     only_update_existing |-> oue, warn_instead_of_error |-> warn]

Init ==
    /\ \/ /\ call \in {PlainCall(p, o, w) : p \in PinVersions, o \in BOOLEAN, w \in BOOLEAN}
          /\ env \in PlainEnvs
       \/ /\ call \in {GitCall(c, o, w, h) : c \in CommitIds \cup {None}, o \in BOOLEAN,
                                           w \in BOOLEAN, h \in Hostnames}
          /\ env \in GitEnvs
    /\ exit \in ExitCodes
    /\ out = NotRun
    /\ outPkg = NotRun

\* ----------------------------------------------------------------- actions

\* pip_ensure_version.pip_ensure_version.require_package(...)
RequirePackage ==
    /\ call.fn = "require_package"
    /\ ~Ran(out)
    /\ out' = require_package(env, call.package_name, call.pin_version,
                              call.only_update_existing,
                              call.warn_instead_of_error, exit)
    /\ UNCHANGED <<call, env, exit, outPkg>>

\* pip_ensure_version.pip_ensure_version.require_gitpackage(...)
RequireGitpackage ==
    /\ call.fn = "require_gitpackage"
    /\ ~Ran(out)
    /\ out' = require_gitpackage(env, call.package_name, call.repo_name,
                                 call.pin_commit_id, call.only_update_existing,
                                 call.warn_instead_of_error, call.repo_hostname,
                                 exit)
    /\ UNCHANGED <<call, env, exit, outPkg>>

\* pip_ensure_version.require_package(...), the package-level implementation,
\* on the same arguments and environment.
PkgRequirePackage ==
    /\ call.fn = "require_package"
    /\ ~Ran(outPkg)
    /\ outPkg' = pkg_require_package(env, call.package_name, call.pin_version,
                                     call.only_update_existing,
                                     call.warn_instead_of_error, exit)
    /\ UNCHANGED <<call, env, exit, out>>

Next == RequirePackage \/ RequireGitpackage \/ PkgRequirePackage

Spec == Init /\ [][Next]_vars

\* ------------------------------------------------ vocabulary of the claims

Plain == call.fn = "require_package"
Git   == call.fn = "require_gitpackage"

\* A distribution the lookup may return: installed, not editable, of the
\* requested canonical name.
Matches(i)  == ~env[i].editable /\ env[i].canonical_name = call.package_name
Installed   == \E i \in 1..Len(env) : Matches(i)
TheDist     == env[CHOOSE i \in 1..Len(env) : Matches(i) /\ \A j \in 1..(i - 1) : ~Matches(j)]

HasPin      == call.pin_version.some
ThePin      == call.pin_version.val

\* The leading run of '<', '>', '=' of the pin, and the run of digits and
\* dots that follows it, stated by position.
OpRunLen ==
    CHOOSE n \in 0..Len(ThePin) :
        /\ \A i \in 1..n : ThePin[i] \in OpChars
        /\ n < Len(ThePin) => ThePin[n + 1] \notin OpChars
VerRunEnd ==
    CHOOSE m \in OpRunLen..Len(ThePin) :
        /\ \A i \in (OpRunLen + 1)..m : ThePin[i] \in VerChars
        /\ m < Len(ThePin) => ThePin[m + 1] \notin VerChars
PinOpRun    == SubSeq(ThePin, 1, OpRunLen)
PinOperator == IF PinOpRun = <<>> THEN <<"=", "=">> ELSE PinOpRun
PinVersion  == SubSeq(ThePin, OpRunLen + 1, VerRunEnd)
PinHasDigit == \E i \in 1..Len(PinVersion) : PinVersion[i] \in Digits

\* The installed version stands in the relation op to the target version.
Stands(cur, op, tgt) ==
    CASE op = <<"=", "=">> -> VersionEq(cur, tgt)
      [] op = <<">", "=">> -> VersionGt(cur, tgt) \/ VersionEq(cur, tgt)
      [] op = <<"<", "=">> -> VersionLt(cur, tgt) \/ VersionEq(cur, tgt)
      [] op = <<">">>      -> VersionGt(cur, tgt)
      [] op = <<"<">>      -> VersionLt(cur, tgt)
      [] OTHER             -> FALSE

\* The pin is a well-formed version spec the installed version satisfies.
PinSatisfied ==
    /\ HasPin /\ Installed
    /\ VersionValid(PinVersion)
    /\ Stands(TheDist.version, PinOperator, Version(PinVersion))

\* Git provenance of the installed distribution.
IsGitDist      == TheDist.direct_url.kind = "vcs" /\ TheDist.direct_url.vcs = "git"
ProvenanceStatus ==
    IF TheDist.direct_url.kind # "vcs" THEN "NotVcsPackage"
    ELSE IF TheDist.direct_url.vcs # "git" THEN "NotGitPackage"
    ELSE "Found"
HasCommitPin   == call.pin_commit_id # None
CommitSatisfied ==
    Installed /\ HasCommitPin /\ IsGitDist
        /\ TheDist.direct_url.commit_id = call.pin_commit_id

NoInstallerCall == out.calls = <<>>

\* ------------------------------------------------------------------ claims

\* C1, as stated: a call returns UpToDate only if its lookup found an
\* installed package and either no pin was requested or the installed
\* version (plain flow) / recorded git commit (git flow) satisfies the pin.
C1_UpToDateOnlyWhenAlreadySatisfied ==
    (Ran(out) /\ out.status = "UpToDate") =>
        /\ Installed
        /\ Plain => (~HasPin \/ PinSatisfied)
        /\ Git => (~HasCommitPin \/ CommitSatisfied)

\* C1, amended: a call returns UpToDate only if either its lookup found an
\* installed package that needs nothing (no pin, or the pin is satisfied) and
\* the installer was not invoked, or the installer was invoked once in that
\* call and exited with code 0.
C1_UpToDateSatisfiedOrInstalled ==
    (Ran(out) /\ out.status = "UpToDate") =>
        \/ /\ Installed
           /\ NoInstallerCall
           /\ Plain => (~HasPin \/ PinSatisfied)
           /\ Git => CommitSatisfied
        \/ /\ Len(out.calls) = 1
           /\ exit = 0

\* The package was absent, the installer succeeded, UpToDate was returned.
C1_Witness ==
    /\ Plain /\ ~Installed /\ ~call.only_update_existing
    /\ out.status = "UpToDate" /\ Len(out.calls) = 1 /\ exit = 0

\* C2: when the installed package already satisfies the request, the
\* installer is not invoked: require_package returns UpToDate when the
\* package is installed and no pin is given or the installed version stands
\* in the pinned relation to the pinned version; require_gitpackage returns
\* Found when installed with no commit pinned, and UpToDate when the git
\* provenance commit equals the pinned commit.
C2_SatisfiedMeansNoInstall ==
    Ran(out) =>
        /\ (Plain /\ Installed /\ (~HasPin \/ PinSatisfied))
               => out = Return("UpToDate", <<>>)
        /\ (Git /\ Installed /\ ~HasCommitPin) => out = Return("Found", <<>>)
        /\ (Git /\ CommitSatisfied) => out = Return("UpToDate", <<>>)

\* Installed at a version equal to the target of a ">=" pin.
C2_Witness ==
    /\ Plain /\ Ran(out) /\ HasPin /\ PinSatisfied
    /\ PinOperator = <<">", "=">>
    /\ VersionEq(TheDist.version, Version(PinVersion))
    /\ out = Return("UpToDate", <<>>)

\* C3, as stated: with the package absent and only_update_existing set,
\* require_package returns NotFound without an installer call whatever
\* pin_version is; and it returns NotFound only in that situation.
C3_AbsentAndOptedOutIsNotFound ==
    (Plain /\ Ran(out)) =>
        /\ (~Installed /\ call.only_update_existing)
               => out = Return("NotFound", <<>>)
        /\ out.status = "NotFound" => (~Installed /\ call.only_update_existing)

\* C3, amended: with the package absent and only_update_existing set,
\* require_package returns NotFound without an installer call when
\* pin_version is None or has a non-empty version part; when the version
\* part is empty it raises ValueError, still without an installer call (the
\* pin is parsed before the absent-package check).  NotFound is returned
\* only when the package is absent and only_update_existing is set.
C3_NotFoundUnlessPinMalformed ==
    (Plain /\ Ran(out)) =>
        /\ (~Installed /\ call.only_update_existing) =>
               IF HasPin /\ PinVersion = <<>>
               THEN out = Raise("ValueError", <<>>)
               ELSE out = Return("NotFound", <<>>)
        /\ out.status = "NotFound" => (~Installed /\ call.only_update_existing)

\* Absent (only an editable install exists), opted out, a well-formed pin.
C3_Witness ==
    /\ Plain /\ ~Installed /\ env # <<>> /\ call.only_update_existing
    /\ HasPin /\ PinVersion # <<>>
    /\ out = Return("NotFound", <<>>)

\* The install step of require_package is reached: no return and no
\* exception precedes it.
PlainInstallStep ==
    \/ /\ Installed /\ HasPin
       /\ VersionValid(PinVersion) /\ PinOperator \in KnownOperators
       /\ ~Stands(TheDist.version, PinOperator, Version(PinVersion))
    \/ /\ ~Installed /\ ~call.only_update_existing
       /\ HasPin => PinVersion # <<>>

\* C4: whenever require_package reaches the install step, the installer is
\* invoked exactly once, with the package name followed by the pin's
\* operator ("==" when the pin carries none) and version, or with the bare
\* package name when no pin was given; otherwise it is not invoked.
C4_InstallRequirementString ==
    (Plain /\ Ran(out)) =>
        IF PlainInstallStep
        THEN out.calls =
                 << IF HasPin
                    THEN call.package_name \o PinOperator \o PinVersion
                    ELSE call.package_name >>
        ELSE out.calls = <<>>

\* foo installed at 1.0, pin ">=2.0": the installer is given "foo>=2.0".
C4_Witness ==
    /\ Plain /\ Installed /\ TheDist.version = <<1, 0>>
    /\ call.pin_version = SomePin(<<">", "=", "2", ".", "0">>)
    /\ out.calls = << <<"f", "o", "o", ">", "=", "2", ".", "0">> >>

\* repo_hostname without its trailing slashes, stated by position.
HostCoreLen ==
    CHOOSE k \in 0..Len(call.repo_hostname) :
        /\ k > 0 => call.repo_hostname[k] # "/"
        /\ \A i \in (k + 1)..Len(call.repo_hostname) : call.repo_hostname[i] = "/"
SchemeGiven ==
    \/ startswith(call.repo_hostname, S_http)
    \/ startswith(call.repo_hostname, S_https)
ExpectedHost ==
    IF SchemeGiven
    THEN SubSeq(call.repo_hostname, 1, HostCoreLen)
    ELSE S_https \o SubSeq(call.repo_hostname, 1, HostCoreLen)
SchemeLen(h) ==
    IF startswith(h, S_https) THEN Len(S_https)
    ELSE IF startswith(h, S_http) THEN Len(S_http) ELSE 0
ExactlyOneScheme(h) ==
    SchemeLen(h) > 0 /\ SchemeLen(Drop(h, SchemeLen(h))) = 0

\* The install step of require_gitpackage is reached.
GitInstallStep ==
    \/ ~Installed /\ ~call.only_update_existing
    \/ /\ Installed /\ HasCommitPin /\ IsGitDist
       /\ TheDist.direct_url.commit_id # call.pin_commit_id

\* C5: whenever require_gitpackage reaches the install step, the installer
\* is invoked exactly once with "git+" H "/" repo_name, where H is
\* repo_hostname without trailing slashes and with "https://" prepended
\* unless it already starts with "http://" or "https://"; H carries exactly
\* one scheme prefix and does not end in a slash.
C5_GitRequirementString ==
    (Git /\ Ran(out) /\ GitInstallStep) =>
        /\ out.calls = << S_gitplus \o ExpectedHost \o S_slash \o call.repo_name >>
        /\ ExactlyOneScheme(ExpectedHost)
        /\ ExpectedHost[Len(ExpectedHost)] # "/"

\* Installed from git at abc123, pinned to def456, default hostname: the
\* installer is given "git+https://github.com/org/foo".
C5_Witness ==
    /\ Git /\ Installed /\ IsGitDist
    /\ TheDist.direct_url.commit_id = "abc123"
    /\ call.pin_commit_id = "def456"
    /\ call.repo_hostname = S_github
    /\ out.calls = << <<"g", "i", "t", "+", "h", "t", "t", "p", "s", ":", "/", "/",
                        "g", "i", "t", "h", "u", "b", ".", "c", "o", "m", "/",
                        "o", "r", "g", "/", "f", "o", "o">> >>

\* C6, as stated: require_gitpackage with a pinned commit on an installed
\* package whose provenance status is NotVcsPackage or NotGitPackage never
\* invokes the installer; it raises PipAutoInstallError when
\* warn_instead_of_error is False and returns that provenance status when
\* it is True.
C6_NonGitPackageReportsItsStatus ==
    (Git /\ Ran(out) /\ Installed /\ HasCommitPin /\ ~IsGitDist) =>
        /\ NoInstallerCall
        /\ IF ~call.warn_instead_of_error
           THEN out.exc = "PipAutoInstallError" /\ out.status = "none"
           ELSE out.exc = "none" /\ out.status = ProvenanceStatus

\* A non-VCS or non-git package was pinned by commit.
NonGitPinned == Git /\ Installed /\ HasCommitPin /\ ~IsGitDist

\* C7: PipAutoInstallError is raised only when warn_instead_of_error is
\* False and either a non-VCS/non-git package was pinned by commit or the
\* install subprocess exited nonzero.  With warn_instead_of_error True a
\* nonzero installer exit yields Failed; a zero exit yields UpToDate; the
\* installer is invoked at most once per call.
C7_InstallFailurePolicy ==
    Ran(out) =>
        /\ out.exc = "PipAutoInstallError" =>
               /\ ~call.warn_instead_of_error
               /\ \/ NonGitPinned /\ NoInstallerCall
                  \/ Len(out.calls) = 1 /\ exit # 0
        /\ (call.warn_instead_of_error /\ out.calls # <<>> /\ exit # 0)
               => (out.status = "Failed" /\ out.exc = "none")
        /\ (out.calls # <<>> /\ exit = 0)
               => (out.status = "UpToDate" /\ out.exc = "none")
        /\ Len(out.calls) <= 1

\* The installer failed under warn_instead_of_error: Failed, one call.
C7_Witness ==
    /\ Ran(out) /\ call.warn_instead_of_error /\ exit # 0
    /\ Len(out.calls) = 1 /\ out.status = "Failed"

\* C8, as stated: the requirement string carries the leading run of
\* '<', '>', '=' ("==" when empty) and the digit/dot run after it, and a
\* ValueError is raised, with no installer call, whenever no version digit
\* remains after the operator.
C8_PinWithoutDigitsIsRejected ==
    (Plain /\ Ran(out) /\ HasPin) =>
        /\ out.calls # <<>> =>
               out.calls = << call.package_name \o PinOperator \o PinVersion >>
        /\ ~PinHasDigit => (IsValueError(out.exc) /\ NoInstallerCall)

\* C9, as stated: a pin whose leading operator run is none of ==, >=, <=,
\* >, < always ends in a ValueError, and the installer is never invoked
\* with it (stated here for the pins whose version part is well formed).
C9_UnknownOperatorIsRejected ==
    (Plain /\ Ran(out) /\ HasPin /\ PinOperator \notin KnownOperators
        /\ VersionValid(PinVersion)) =>
        (IsValueError(out.exc) /\ NoInstallerCall)

\* The pin is absent or a bare version: digits separated by single dots.
OperatorFreePin == ~HasPin \/ VersionValid(ThePin)

\* C10, as stated: on operator-free pins the package-level and the
\* module-level require_package return the same status or raise the same
\* error, and issue the same installer requirement strings.
C10_ImplementationsAgree ==
    (Plain /\ Ran(out) /\ Ran(outPkg) /\ OperatorFreePin) => out = outPkg

====
